---- MODULE Spec2Model ----
(***************************************************************************)
(* Model of upp::impl::fslist_base (src/src/uEmbedded-pp/__fslist_base.hxx) *)
(* a fixed-capacity doubly linked list over caller supplied arrays: the    *)
(* node arena fslist_alloc_base, the cursors fslist_const_iterator and     *)
(* fslist_iterator, and the value container fslist_base.                   *)
(***************************************************************************)
EXTENDS Integers, Sequences, FiniteSets, TLC

(* ------------------------------ bounds -------------------------------- *)
\* largest capacity a container is constructed with
MaxCap == 3
\* payload values are 1..MaxVal
MaxVal == 2
\* longest input range handed to insert(pos, begin, end)
MaxLen == 2

(* ------------------------- program constants -------------------------- *)
\* nty_ is an unsigned index type; the model instantiates it as uint8_t
IndexMod == 256
\* NODE_NONE = (nty_)-1
NODE_NONE == IndexMod - 1

Values == 1 .. MaxVal
\* a value slot is <<v>> while it holds a constructed payload v, and Raw otherwise
Raw == <<>>

VARIABLES
    size_, capacity_, head_, tail_, idle_front_, idle_back_,  \* fslist_alloc_base
    narray_,      \* the link records: index -> [nxt_, prv_, cur_]
    varray_,      \* the value slots: index -> payload or Raw
    fatal,        \* a uassert has tripped: execution has halted
    life,         \* the constructor and destructor calls the last call made on slots
    last,         \* the last public call: its name, arguments and result
    run,          \* the pushes made to one end since the container was empty
    fifo          \* the releases and allocations of the current release/allocate run

vars == <<size_, capacity_, head_, tail_, idle_front_, idle_back_,
          narray_, varray_, fatal, life, last, run, fifo>>

\* the container object as one value, so that member functions compose; a call
\* starts with no constructor or destructor call made
Self == [size_ |-> size_, capacity_ |-> capacity_, head_ |-> head_,
         tail_ |-> tail_, idle_front_ |-> idle_front_,
         idle_back_ |-> idle_back_, narray_ |-> narray_,
         varray_ |-> varray_, fatal |-> fatal, life |-> <<>>]

\* uassert(cond): halts execution when cond is false
uassert(s, cond) == IF cond THEN s ELSE [s EXCEPT !.fatal = TRUE]

(* ------------------------- fslist_alloc_base -------------------------- *)

\* the constructor chaining the nodes from the last index down to index 0
Construct_downwards(capacity) ==
    LET linked == [i \in 0 .. capacity - 1 |->
                      [nxt_ |-> (i - 1) % IndexMod,
                       prv_ |-> (i + 1) % IndexMod,
                       cur_ |-> NODE_NONE]]
        first  == [linked EXCEPT ![0].nxt_ = NODE_NONE]
        both   == [first EXCEPT ![capacity - 1].prv_ = NODE_NONE]
    IN  [size_ |-> 0, capacity_ |-> capacity,
         head_ |-> NODE_NONE, tail_ |-> NODE_NONE,
         idle_front_ |-> (capacity - 1) % IndexMod, idle_back_ |-> 0,
         narray_ |-> both,
         varray_ |-> [i \in 0 .. capacity - 1 |-> Raw],
         fatal |-> FALSE, life |-> <<>>]

\* the constructor: every node idle, chained in index order
Construct(capacity) ==
    LET linked == [i \in 0 .. capacity - 1 |->
                      [nxt_ |-> (i + 1) % IndexMod,
                       prv_ |-> (i - 1) % IndexMod,
                       cur_ |-> NODE_NONE]]
        first  == [linked EXCEPT ![0].prv_ = NODE_NONE]
        both   == [first EXCEPT ![capacity - 1].nxt_ = NODE_NONE]
    IN  [size_ |-> 0, capacity_ |-> capacity,
         head_ |-> NODE_NONE, tail_ |-> NODE_NONE,
         idle_front_ |-> 0, idle_back_ |-> (capacity - 1) % IndexMod,
         narray_ |-> both,
         varray_ |-> [i \in 0 .. capacity - 1 |-> Raw],
         fatal |-> FALSE, life |-> <<>>]

\* fslist_node::by_: the node at offset (absolute - cur_) from node i
by_(s, i, absolute) == i - s.narray_[i].cur_ + absolute

\* the two checks of by_
by_ok(s, i, absolute) == absolute # NODE_NONE /\ s.narray_[i].cur_ # NODE_NONE

\* push_back_node with n.prv_ = tail_ left out
push_back_node_one_way(s, i) ==
    IF s.narray_[i].cur_ = NODE_NONE THEN uassert(s, FALSE)
    ELSE IF s.tail_ # NODE_NONE
    THEN [s EXCEPT !.narray_ = [@ EXCEPT ![s.tail_].nxt_ = i],
                   !.tail_ = i]
    ELSE IF s.head_ # NODE_NONE THEN uassert(s, FALSE)
    ELSE [s EXCEPT !.head_ = i,
                   !.tail_ = i]

push_back_node(s, i) ==
    IF s.narray_[i].cur_ = NODE_NONE THEN uassert(s, FALSE)
    ELSE IF s.tail_ # NODE_NONE
    THEN [s EXCEPT !.narray_ = [@ EXCEPT ![s.tail_].nxt_ = i, ![i].prv_ = s.tail_],
                   !.tail_ = i]
    ELSE IF s.head_ # NODE_NONE THEN uassert(s, FALSE)
    ELSE [s EXCEPT !.head_ = i,
                   !.narray_ = [@ EXCEPT ![i].prv_ = s.tail_],
                   !.tail_ = i]

\* push_front_node with the update of head_ left out on a list that is not empty
push_front_node_behind(s, i) ==
    IF s.narray_[i].cur_ = NODE_NONE THEN uassert(s, FALSE)
    ELSE IF s.head_ # NODE_NONE
    THEN [s EXCEPT !.narray_ = [@ EXCEPT ![s.head_].prv_ = i, ![i].nxt_ = s.head_]]
    ELSE IF s.tail_ # NODE_NONE THEN uassert(s, FALSE)
    ELSE [s EXCEPT !.tail_ = i,
                   !.narray_ = [@ EXCEPT ![i].nxt_ = s.head_],
                   !.head_ = i]

push_front_node(s, i) ==
    IF s.narray_[i].cur_ = NODE_NONE THEN uassert(s, FALSE)
    ELSE IF s.head_ # NODE_NONE
    THEN [s EXCEPT !.narray_ = [@ EXCEPT ![s.head_].prv_ = i, ![i].nxt_ = s.head_],
                   !.head_ = i]
    ELSE IF s.tail_ # NODE_NONE THEN uassert(s, FALSE)
    ELSE [s EXCEPT !.tail_ = i,
                   !.narray_ = [@ EXCEPT ![i].nxt_ = s.head_],
                   !.head_ = i]

\* insert_node splicing the new node after `at` instead of before it
insert_node_after(s, i, at) ==
    IF at = NODE_NONE THEN push_back_node(s, i)
    ELSE IF at = s.tail_ THEN push_back_node(s, i)
    ELSE LET n == s.narray_[i]
             m == s.narray_[at]
         IN  IF n.cur_ = NODE_NONE \/ m.cur_ = NODE_NONE \/ m.nxt_ = NODE_NONE
             THEN uassert(s, FALSE)
             ELSE LET q  == m.nxt_
                      a1 == [s.narray_ EXCEPT ![q].prv_ = i]
                      a2 == [a1 EXCEPT ![i].nxt_ = q]
                      a3 == [a2 EXCEPT ![at].nxt_ = i]
                      a4 == [a3 EXCEPT ![i].prv_ = at]
                  IN  [s EXCEPT !.narray_ = a4]

insert_node(s, i, at) ==
    IF at = NODE_NONE THEN push_back_node(s, i)
    ELSE IF at = s.head_ THEN push_front_node(s, i)
    ELSE LET n == s.narray_[i]
             m == s.narray_[at]
         IN  IF n.cur_ = NODE_NONE \/ m.cur_ = NODE_NONE \/ m.prv_ = NODE_NONE
             THEN uassert(s, FALSE)
             ELSE IF ~by_ok(s, at, m.prv_) THEN uassert(s, FALSE)
             ELSE LET p  == by_(s, at, m.prv_)
                      a1 == [s.narray_ EXCEPT ![p].nxt_ = i]
                      a2 == [a1 EXCEPT ![i].prv_ = m.prv_]
                      a3 == [a2 EXCEPT ![at].prv_ = i]
                      a4 == [a3 EXCEPT ![i].nxt_ = at]
                  IN  [s EXCEPT !.narray_ = a4]

\* alloc_node leaving the prv_ of the new idle front as it was
alloc_node_keeps_prev(s) ==
    IF ~(s.size_ < s.capacity_) THEN uassert(s, FALSE)
    ELSE LET i  == s.idle_front_
             f  == s.narray_[i].nxt_
             a1 == [s.narray_ EXCEPT ![i].cur_ = i]
             a3 == [a1 EXCEPT ![i].nxt_ = NODE_NONE, ![i].prv_ = NODE_NONE]
         IN  [s EXCEPT !.narray_ = a3,
                       !.idle_front_ = f,
                       !.idle_back_ = IF f = NODE_NONE THEN NODE_NONE ELSE @,
                       !.size_ = (@ + 1) % IndexMod]

\* alloc_node with ++size_ ahead of its check
alloc_node_counts_first(s) ==
    LET c == [s EXCEPT !.size_ = (@ + 1) % IndexMod] IN
    IF ~(s.size_ < s.capacity_) THEN uassert(c, FALSE)
    ELSE LET i  == s.idle_front_
             f  == s.narray_[i].nxt_
             a1 == [s.narray_ EXCEPT ![i].cur_ = i]
             a2 == IF f = NODE_NONE THEN a1 ELSE [a1 EXCEPT ![f].prv_ = NODE_NONE]
             a3 == [a2 EXCEPT ![i].nxt_ = NODE_NONE, ![i].prv_ = NODE_NONE]
         IN  [c EXCEPT !.narray_ = a3,
                       !.idle_front_ = f,
                       !.idle_back_ = IF f = NODE_NONE THEN NODE_NONE ELSE @]

alloc_node(s) ==
    IF ~(s.size_ < s.capacity_) THEN uassert(s, FALSE)
    ELSE LET i  == s.idle_front_
             f  == s.narray_[i].nxt_
             a1 == [s.narray_ EXCEPT ![i].cur_ = i]
             a2 == IF f = NODE_NONE THEN a1 ELSE [a1 EXCEPT ![f].prv_ = NODE_NONE]
             a3 == [a2 EXCEPT ![i].nxt_ = NODE_NONE, ![i].prv_ = NODE_NONE]
         IN  [s EXCEPT !.narray_ = a3,
                       !.idle_front_ = f,
                       !.idle_back_ = IF f = NODE_NONE THEN NODE_NONE ELSE @,
                       !.size_ = (@ + 1) % IndexMod]

\* the value alloc_node returns: n.cur_ of the node it took
alloc_ret(s) == alloc_node(s).narray_[s.idle_front_].cur_

\* dealloc_unlink with the update of tail_ left out
dealloc_unlink_keeps_tail(s, i) ==
    LET n  == s.narray_[i]
        a1 == IF n.nxt_ # NODE_NONE
              THEN [s.narray_ EXCEPT ![by_(s, i, n.nxt_)].prv_ = n.prv_]
              ELSE s.narray_
        a2 == IF n.prv_ # NODE_NONE
              THEN [a1 EXCEPT ![by_(s, i, n.prv_)].nxt_ = n.nxt_]
              ELSE a1
    IN  [s EXCEPT !.head_ = IF n.prv_ # NODE_NONE THEN @ ELSE n.nxt_,
                  !.narray_ = a2]

\* dealloc_node up to its check of the idle queue: node i unlinked from the active list
dealloc_unlink(s, i) ==
    LET n  == s.narray_[i]
        a1 == IF n.nxt_ # NODE_NONE
              THEN [s.narray_ EXCEPT ![by_(s, i, n.nxt_)].prv_ = n.prv_]
              ELSE s.narray_
        a2 == IF n.prv_ # NODE_NONE
              THEN [a1 EXCEPT ![by_(s, i, n.prv_)].nxt_ = n.nxt_]
              ELSE a1
    IN  [s EXCEPT !.tail_ = IF n.nxt_ # NODE_NONE THEN @ ELSE n.prv_,
                  !.head_ = IF n.prv_ # NODE_NONE THEN @ ELSE n.nxt_,
                  !.narray_ = a2]

\* dealloc_idle putting node i at the front of the idle queue instead of its back
dealloc_idle_lifo(s, i) ==
    LET a3 == IF s.idle_front_ # NODE_NONE
              THEN [s.narray_ EXCEPT ![s.idle_front_].prv_ = i]
              ELSE s.narray_
        a4 == [a3 EXCEPT ![i].nxt_ = s.idle_front_,
                         ![i].prv_ = NODE_NONE,
                         ![i].cur_ = NODE_NONE]
    IN  [s EXCEPT !.idle_back_ = IF s.idle_front_ # NODE_NONE THEN @ ELSE i,
                  !.narray_ = a4,
                  !.idle_front_ = i,
                  !.size_ = (@ - 1) % IndexMod]

\* dealloc_idle with ++size_ for --size_
dealloc_idle_counts_up(s, i) ==
    LET a3 == IF s.idle_back_ # NODE_NONE
              THEN [s.narray_ EXCEPT ![s.idle_back_].nxt_ = i]
              ELSE s.narray_
        a4 == [a3 EXCEPT ![i].prv_ = s.idle_back_,
                         ![i].nxt_ = NODE_NONE,
                         ![i].cur_ = NODE_NONE]
    IN  [s EXCEPT !.idle_front_ = IF s.idle_back_ # NODE_NONE THEN @ ELSE i,
                  !.narray_ = a4,
                  !.idle_back_ = i,
                  !.size_ = (@ + 1) % IndexMod]

\* the rest of dealloc_node: node i appended to the idle queue and marked free
dealloc_idle(s, i) ==
    IF s.idle_back_ = NODE_NONE /\ s.idle_front_ # NODE_NONE THEN uassert(s, FALSE)
    ELSE LET a3 == IF s.idle_back_ # NODE_NONE
                   THEN [s.narray_ EXCEPT ![s.idle_back_].nxt_ = i]
                   ELSE s.narray_
             a4 == [a3 EXCEPT ![i].prv_ = s.idle_back_,
                              ![i].nxt_ = NODE_NONE,
                              ![i].cur_ = NODE_NONE]
         IN  [s EXCEPT !.idle_front_ = IF s.idle_back_ # NODE_NONE THEN @ ELSE i,
                       !.narray_ = a4,
                       !.idle_back_ = i,
                       !.size_ = (@ - 1) % IndexMod]

dealloc_node(s, i) ==
    LET n == s.narray_[i] IN
    IF n.cur_ = NODE_NONE THEN uassert(s, FALSE)
    ELSE IF ~(i >= 0 /\ i < s.capacity_) THEN uassert(s, FALSE)
    ELSE IF n.nxt_ # NODE_NONE /\ ~by_ok(s, i, n.nxt_) THEN uassert(s, FALSE)
    ELSE IF n.prv_ # NODE_NONE /\ ~by_ok(s, i, n.prv_) THEN uassert(s, FALSE)
    ELSE dealloc_idle(dealloc_unlink(s, i), i)

head(s) == s.head_
tail(s) == s.tail_
next(s, n) == s.narray_[n].nxt_
prev(s, n) == s.narray_[n].prv_
valid_node(s, n) == n # NODE_NONE /\ s.narray_[n].cur_ # NODE_NONE
max_size(s) == s.capacity_
size(s) == s.size_
empty(s) == s.size_ = 0

(* ----------------------------- fslist_base ---------------------------- *)

\* placement new of value v in slot n
construct(s, n, v) ==
    [s EXCEPT !.varray_ = [@ EXCEPT ![n] = <<v>>],
              !.life = Append(@, [call |-> "new", at |-> n])]

\* varray_[n].~value_type()
destroy(s, n) ==
    [s EXCEPT !.varray_ = [@ EXCEPT ![n] = Raw],
              !.life = Append(@, [call |-> "delete", at |-> n])]

emplace_front(s, v) ==
    LET s1 == alloc_node(s) IN
    IF s1.fatal THEN s1
    ELSE LET n  == alloc_ret(s)
             s2 == push_front_node(s1, n)
         IN  IF s2.fatal THEN s2 ELSE construct(s2, n, v)

emplace_back(s, v) ==
    LET s1 == alloc_node(s) IN
    IF s1.fatal THEN s1
    ELSE LET n  == alloc_ret(s)
             s2 == push_back_node(s1, n)
         IN  IF s2.fatal THEN s2 ELSE construct(s2, n, v)

push_back(s, v) == emplace_back(s, v)

push_front(s, v) == emplace_front(s, v)

emplace(s, pos, v) ==
    IF ~(size(s) < max_size(s)) THEN uassert(s, FALSE)
    ELSE LET s1 == alloc_node(s) IN
         IF s1.fatal THEN s1
         ELSE LET n  == alloc_ret(s)
                  s2 == insert_node(s1, n, pos)
              IN  IF s2.fatal THEN s2 ELSE construct(s2, n, v)

\* the cursor emplace returns: r.cur_ = n
emplace_ret(s, pos, v) == alloc_ret(s)

insert(s, pos, v) == emplace(s, pos, v)

\* release returning at once for the end cursor, where release has its check
release_skips_end(s, n) ==
    IF n = NODE_NONE THEN s
    ELSE dealloc_node(destroy(s, n), n)

\* release handing the node back with its payload left alive
release_without_destroy(s, n) ==
    IF n = NODE_NONE THEN uassert(s, FALSE)
    ELSE dealloc_node(s, n)

release(s, n) ==
    IF n = NODE_NONE THEN uassert(s, FALSE)
    ELSE dealloc_node(destroy(s, n), n)

pop_back(s) == release(s, tail(s))

\* pop_front releasing the node at the other end
pop_front_at_tail(s) == release(s, tail(s))

pop_front(s) == release(s, head(s))

erase(s, pos) == release(s, pos)

\* the loop of clear() reading next(i) after node i has been put back
RECURSIVE clear_from_next_after(_, _)
clear_from_next_after(s, i) ==
    IF i = NODE_NONE \/ s.fatal THEN s
    ELSE LET s1 == dealloc_node(destroy(s, i), i)
         IN  clear_from_next_after(s1, next(s1, i))

\* the loop of clear() from node i on
RECURSIVE clear_from(_, _)
clear_from(s, i) ==
    IF i = NODE_NONE \/ s.fatal THEN s
    ELSE LET k == i
             j == next(s, i)
         IN  clear_from(dealloc_node(destroy(s, i), k), j)

clear(s) == clear_from(s, head(s))

\* the loop of insert(pos, begin, end): the state and the cursor pos it ends with
RECURSIVE insert_range(_, _, _)
insert_range(s, pos, seq) ==
    IF seq = <<>> THEN [s |-> s, pos |-> pos]
    ELSE LET s1 == emplace(s, pos, Head(seq)) IN
         IF s1.fatal THEN [s |-> s1, pos |-> pos]
         ELSE insert_range(s1, emplace_ret(s, pos, Head(seq)), Tail(seq))

cbegin(s) == head(s)
cend(s) == NODE_NONE
begin(s) == cbegin(s)
end(s) == cend(s)

\* front(), const or not: a uassert tripped, or the slot the reference it
\* returns is of
front(s) ==
    IF ~valid_node(s, head(s)) THEN [fatal |-> TRUE, ret |-> NODE_NONE]
    ELSE [fatal |-> FALSE, ret |-> head(s)]

\* back(), const or not
back(s) ==
    IF ~valid_node(s, tail(s)) THEN [fatal |-> TRUE, ret |-> NODE_NONE]
    ELSE [fatal |-> FALSE, ret |-> tail(s)]

\* get_arg(node): a uassert tripped, or the slot the pointer it returns is of
get_arg(s, node) ==
    IF node = NODE_NONE THEN [fatal |-> TRUE, ret |-> NODE_NONE]
    ELSE IF ~valid_node(s, node) THEN [fatal |-> TRUE, ret |-> NODE_NONE]
    ELSE [fatal |-> FALSE, ret |-> node]

(* --------------- fslist_const_iterator, fslist_iterator --------------- *)
\* A step of a cursor at index c of container s: whether a uassert tripped, what
\* the cursor itself (*this) is afterwards, and the cursor the call returns.

Stepped(self, ret) == [fatal |-> FALSE, self |-> self, ret |-> ret]
Tripped(c) == [fatal |-> TRUE, self |-> c, ret |-> c]

\* fslist_const_iterator::operator++()
const_preinc(s, c) ==
    IF c = NODE_NONE THEN Tripped(c)
    ELSE Stepped(next(s, c), next(s, c))

\* fslist_const_iterator::operator++(int): a copy is stepped and returned
const_postinc(s, c) ==
    LET r == const_preinc(s, c) IN
    IF r.fatal THEN Tripped(c) ELSE Stepped(c, r.ret)

\* const_predec stepping back from end() to the head instead of the tail
const_predec_to_head(s, c) ==
    IF c = head(s) THEN Tripped(c)
    ELSE IF c = NODE_NONE THEN Stepped(head(s), head(s))
    ELSE Stepped(prev(s, c), prev(s, c))

\* fslist_const_iterator::operator--(); its check reads container_.head()
const_predec(s, c) ==
    IF c = head(s) THEN Tripped(c)
    ELSE IF c = NODE_NONE THEN Stepped(tail(s), tail(s))
    ELSE Stepped(prev(s, c), prev(s, c))

\* fslist_const_iterator::operator--(int): a copy is stepped and returned
const_postdec(s, c) ==
    LET r == const_predec(s, c) IN
    IF r.fatal THEN Tripped(c) ELSE Stepped(c, r.ret)

\* fslist_iterator::operator++(): super::operator++()
iter_preinc(s, c) == const_preinc(s, c)

\* fslist_iterator::operator++(int): auto r = *this; return ++r;
iter_postinc(s, c) ==
    LET r == iter_preinc(s, c) IN
    IF r.fatal THEN Tripped(c) ELSE Stepped(c, r.ret)

\* fslist_iterator::operator--(): super::operator--()
iter_predec(s, c) == const_predec(s, c)

\* fslist_iterator::operator--(int): auto r = *this; return ++r;
iter_postdec(s, c) ==
    LET r == iter_preinc(s, c) IN
    IF r.fatal THEN Tripped(c) ELSE Stepped(c, r.ret)

\* fslist_const_iterator::valid() of a cursor at c
valid(s, c) == valid_node(s, c)

\* fslist_const_iterator::operator*() of a cursor at c: a uassert tripped, or
\* the slot referred to and the payload read through the reference
deref(s, c) ==
    LET p == get_arg(s, c) IN
    IF p.fatal THEN [fatal |-> TRUE, slot |-> NODE_NONE, value |-> Raw]
    ELSE [fatal |-> FALSE, slot |-> p.ret, value |-> s.varray_[p.ret]]

ForwardSteps == {"const ++it", "const it++", "iter ++it", "iter it++"}
BackwardSteps == {"const --it", "const it--", "iter --it", "iter it--"}

\* the step named op
Step(op, s, c) ==
    CASE op = "const ++it" -> const_preinc(s, c)
      [] op = "const it++" -> const_postinc(s, c)
      [] op = "const --it" -> const_predec(s, c)
      [] op = "const it--" -> const_postdec(s, c)
      [] op = "iter ++it" -> iter_preinc(s, c)
      [] op = "iter it++" -> iter_postinc(s, c)
      [] op = "iter --it" -> iter_predec(s, c)
      [] op = "iter it--" -> iter_postdec(s, c)

(* ------------------- observations of a container ---------------------- *)

\* the indices a forward traversal from node i visits, at most `fuel` of them
RECURSIVE Walk(_, _, _)
Walk(s, i, fuel) ==
    IF i = NODE_NONE \/ fuel = 0 THEN <<>>
    ELSE <<i>> \o Walk(s, next(s, i), fuel - 1)

\* forward traversal from begin() to end(): the live indices in list order
Order(s) == Walk(s, head(s), s.capacity_ + 1)

\* the idle queue from idle_front_ on
IdleSeq(s) == Walk(s, s.idle_front_, s.capacity_ + 1)

\* the payloads in list order
Payloads(s) == LET o == Order(s) IN [k \in 1 .. Len(o) |-> s.varray_[o[k]]]

Range(f) == {f[k] : k \in DOMAIN f}

\* what the caller saw of the container before a call
Seen(s) == [size |-> size(s), head |-> head(s), tail |-> tail(s),
            order |-> Order(s), payloads |-> Payloads(s)]

(* ------------------------------ actions ------------------------------- *)

\* the container becomes s
Becomes(s) ==
    /\ size_' = s.size_ /\ capacity_' = s.capacity_
    /\ head_' = s.head_ /\ tail_' = s.tail_
    /\ idle_front_' = s.idle_front_ /\ idle_back_' = s.idle_back_
    /\ narray_' = s.narray_ /\ varray_' = s.varray_
    /\ fatal' = s.fatal /\ life' = s.life

\* the container is s
Is(s) ==
    /\ size_ = s.size_ /\ capacity_ = s.capacity_
    /\ head_ = s.head_ /\ tail_ = s.tail_
    /\ idle_front_ = s.idle_front_ /\ idle_back_ = s.idle_back_
    /\ narray_ = s.narray_ /\ varray_ = s.varray_
    /\ fatal = s.fatal /\ life = s.life

\* the cursor values a caller can pass: end(), or an index of the arena
Cursors == (0 .. capacity_ - 1) \cup {NODE_NONE}

\* the record of a call; a call that inserts also keeps what the container was
Call(op, pos, arg, ret) ==
    [op |-> op, pos |-> pos, arg |-> arg, ret |-> ret, was |-> <<>>]

Inserted(op, pos, arg, ret) ==
    [op |-> op, pos |-> pos, arg |-> arg, ret |-> ret, was |-> <<Seen(Self)>>]

NoRun == [end |-> "none", vals |-> <<>>]
EmptyRun == [end |-> "either", vals |-> <<>>]
NoFifo == [idle |-> <<>>, rel |-> <<>>, got |-> <<>>]

BackOps == {"emplace_back", "push_back"}
FrontOps == {"emplace_front", "push_front"}

\* run after the call last': pushes to one end of a container that was empty
RunAfter ==
    IF fatal' THEN NoRun
    ELSE IF last'.op \in BackOps /\ run.end \in {"either", "back"}
    THEN [end |-> "back", vals |-> run.vals \o last'.arg]
    ELSE IF last'.op \in FrontOps /\ run.end \in {"either", "front"}
    THEN [end |-> "front", vals |-> run.vals \o last'.arg]
    ELSE IF size_' = 0 THEN EmptyRun
    ELSE NoRun

ReleaseOps == {"erase", "pop_front", "pop_back"}
AllocOps == {"emplace_front", "emplace_back", "emplace"}

\* fifo after the call last': a run of up to three releases with no allocation in
\* between, each of the index last'.pos, with the idle queue as it was before the
\* first of them; then, after three releases, the indices handed out by the
\* allocations that follow, until the next release
FifoAfter ==
    IF fatal' THEN NoFifo
    ELSE IF last'.op \in ReleaseOps
    THEN IF fifo.rel = <<>> \/ fifo.got # <<>>
         THEN [idle |-> IdleSeq(Self), rel |-> <<last'.pos>>, got |-> <<>>]
         ELSE IF Len(fifo.rel) < 3
         THEN [fifo EXCEPT !.rel = Append(@, last'.pos)]
         ELSE NoFifo
    ELSE IF last'.op \in AllocOps /\ Len(fifo.rel) = 3
    THEN [fifo EXCEPT !.got = Append(@, last'.ret)]
    ELSE NoFifo

\* the ghosts of a call of the container
Plain == run' = RunAfter /\ UNCHANGED fifo

\* the ghosts of a call whose releases and allocations are followed
Tracked == fifo' = FifoAfter /\ UNCHANGED run

Init ==
    /\ \E c \in 1 .. MaxCap : Is(Construct(c))
    /\ last = Call("ctor", NODE_NONE, <<>>, NODE_NONE)
    /\ run = EmptyRun
    /\ fifo = NoFifo

\* emplace_front(v), or push_front(v), which is that call
DoEmplaceFront(V) ==
    /\ ~fatal
    /\ \E v \in V : \E s \in {emplace_front(Self, v), push_front(Self, v)} :
          /\ Becomes(s)
          /\ last' = Inserted("emplace_front", NODE_NONE, <<v>>,
                              IF s.fatal THEN NODE_NONE ELSE alloc_ret(Self))

\* emplace_back(v), or push_back(v), which is that call
DoEmplaceBack(V) ==
    /\ ~fatal
    /\ \E v \in V : \E s \in {emplace_back(Self, v), push_back(Self, v)} :
          /\ Becomes(s)
          /\ last' = Inserted("emplace_back", NODE_NONE, <<v>>,
                              IF s.fatal THEN NODE_NONE ELSE alloc_ret(Self))

\* emplace(pos, v), or insert(pos, v), which is that call
DoEmplace(V) ==
    /\ ~fatal
    /\ \E pos \in Cursors, v \in V :
          \E s \in {emplace(Self, pos, v), insert(Self, pos, v)} :
          /\ Becomes(s)
          /\ last' = Inserted("emplace", pos, <<v>>,
                              IF s.fatal THEN NODE_NONE ELSE emplace_ret(Self, pos, v))

\* erase(pos); through the cursor the previous call returned, the record keeps
\* what the container was before that call
DoErase ==
    /\ ~fatal
    /\ \E pos \in Cursors :
          /\ Becomes(erase(Self, pos))
          /\ last' = [Call("erase", pos, <<>>, NODE_NONE) EXCEPT
                         !.was = IF last.op = "emplace" /\ last.ret = pos
                                 THEN last.was ELSE <<>>]

DoPopFront ==
    /\ ~fatal
    /\ Becomes(pop_front(Self))
    /\ last' = Call("pop_front", head_, <<>>, NODE_NONE)

DoPopBack ==
    /\ ~fatal
    /\ Becomes(pop_back(Self))
    /\ last' = Call("pop_back", tail_, <<>>, NODE_NONE)

DoClear ==
    /\ ~fatal
    /\ Becomes(clear(Self))
    /\ last' = Call("clear", NODE_NONE, <<>>, NODE_NONE)

EmplaceFront == DoEmplaceFront(Values) /\ Plain
EmplaceBack == DoEmplaceBack(Values) /\ Plain
Emplace == DoEmplace(Values) /\ Plain
Erase == DoErase /\ Plain
PopFront == DoPopFront /\ Plain
PopBack == DoPopBack /\ Plain
Clear == DoClear /\ Plain

Next ==
    \/ EmplaceFront \/ EmplaceBack \/ Emplace
    \/ Erase \/ PopFront \/ PopBack \/ Clear

Spec == Init /\ [][Next]_vars

\* three releases beside an index that is still idle need a fourth node
FifoCap == MaxCap + 1

\* the payload is of no matter to the reuse of indices: every call stores MaxVal
FifoInit ==
    /\ \E c \in 1 .. FifoCap : Is(Construct(c))
    /\ last = Call("ctor", NODE_NONE, <<>>, NODE_NONE)
    /\ run = EmptyRun
    /\ fifo = NoFifo

FifoEmplaceFront == DoEmplaceFront({MaxVal}) /\ Tracked
FifoEmplaceBack == DoEmplaceBack({MaxVal}) /\ Tracked
FifoEmplace == DoEmplace({MaxVal}) /\ Tracked
FifoErase == DoErase /\ Tracked
FifoPopFront == DoPopFront /\ Tracked
FifoPopBack == DoPopBack /\ Tracked

FifoNext ==
    \/ FifoEmplaceFront \/ FifoEmplaceBack \/ FifoEmplace
    \/ FifoErase \/ FifoPopFront \/ FifoPopBack

SpecFifo == FifoInit /\ [][FifoNext]_vars

\* the input ranges [begin, end) of insert(pos, begin, end)
Inputs == UNION {[1 .. n -> Values] : n \in 0 .. MaxLen}

\* insert(pos, begin, end). The function ends without a return statement, so the
\* cursor the caller receives is whatever the build leaves there: any cursor.
\* The record keeps, beside what the container was, the cursor pos the loop
\* ended with
InsertRange ==
    /\ ~fatal
    /\ \E pos \in Cursors, seq \in Inputs, ret \in Cursors :
          LET r == insert_range(Self, pos, seq) IN
          /\ Becomes(r.s)
          /\ last' = [op |-> "insert_range", pos |-> pos, arg |-> seq,
                      ret |-> ret, was |-> <<Seen(Self), r.pos>>]
    /\ Plain

RangeNext == EmplaceBack \/ PopFront \/ InsertRange

SpecRange == Init /\ [][RangeNext]_vars

\* a step of a cursor at pos; the record keeps the cursor afterwards as arg
StepCursor ==
    /\ ~fatal
    /\ \E op \in ForwardSteps \cup BackwardSteps, pos \in Cursors :
          LET r == Step(op, Self, pos) IN
          /\ fatal' = r.fatal /\ life' = <<>>
          /\ last' = Call(op, pos, <<r.self>>, r.ret)
    /\ UNCHANGED <<size_, capacity_, head_, tail_, idle_front_, idle_back_,
                   narray_, varray_, run, fifo>>

\* the payload is of no matter to a traversal: every call stores MaxVal
CursorEmplace == DoEmplace({MaxVal}) /\ Plain

CursorNext == CursorEmplace \/ Erase \/ StepCursor

SpecCursor == Init /\ [][CursorNext]_vars

FreshNext == EmplaceFront \/ EmplaceBack \/ Emplace

\* a container from its construction on, as long as nothing is released
SpecFresh == Init /\ [][FreshNext]_vars

\* a call of front() or back() with outcome r; the record keeps the slot of
\* the reference as ret and the payload read through it as arg
Read(op, r) ==
    /\ ~fatal
    /\ fatal' = r.fatal /\ life' = <<>>
    /\ last' = Call(op, NODE_NONE, IF r.fatal THEN <<>> ELSE varray_[r.ret], r.ret)
    /\ UNCHANGED <<size_, capacity_, head_, tail_, idle_front_, idle_back_,
                   narray_, varray_, run, fifo>>

ReadFront == Read("front", front(Self))
ReadBack == Read("back", back(Self))

AccessNext ==
    \/ EmplaceFront \/ EmplaceBack \/ Emplace
    \/ Erase \/ PopFront \/ PopBack \/ Clear
    \/ ReadFront \/ ReadBack

\* the calls of the container and the reads of its two ends
SpecAccess == Init /\ [][AccessNext]_vars

\* the destructor has not run
Alive == last.op # "~fslist_base"

\* ~fslist_base(): clear(); no member is called on the object afterwards
Destruct ==
    /\ ~fatal /\ Alive
    /\ Becomes(clear(Self))
    /\ last' = Call("~fslist_base", NODE_NONE, <<>>, NODE_NONE)
    /\ Plain

LifeEmplaceFront == Alive /\ EmplaceFront
LifeEmplaceBack == Alive /\ EmplaceBack
LifeEmplace == Alive /\ Emplace
LifeErase == Alive /\ Erase
LifePopFront == Alive /\ PopFront
LifePopBack == Alive /\ PopBack
LifeClear == Alive /\ Clear

LifeNext ==
    \/ LifeEmplaceFront \/ LifeEmplaceBack \/ LifeEmplace
    \/ LifeErase \/ LifePopFront \/ LifePopBack \/ LifeClear
    \/ Destruct

\* a container from its construction to its destruction
SpecLife == Init /\ [][LifeNext]_vars

(* ------------------------------- claims ------------------------------- *)

Live == Range(Order(Self))
Idle == Range(IdleSeq(Self))
Indices == 0 .. capacity_ - 1

\* C1: while the program runs, every index of [0, capacity) is either reached by
\* the forward traversal from begin() to end() or a member of the idle chain
\* from idle_front_, never both and never neither, and size() is the number of
\* indices the traversal reaches.
C1_Partition ==
    ~fatal =>
        /\ Live \cup Idle = Indices
        /\ Live \cap Idle = {}
        /\ Len(Order(Self)) = Cardinality(Live)
        /\ Len(IdleSeq(Self)) = Cardinality(Idle)
        /\ size(Self) = Cardinality(Live)

\* a release has left both a live and an idle part
C1_Witness ==
    /\ ~fatal /\ last.op = "erase"
    /\ Cardinality(Live) >= 2 /\ Cardinality(Idle) >= 1
    /\ last.pos \in Idle

\* C2: size() <= max_size() in every state, and no call changes max_size(),
\* which the constructor set to the capacity it was given.
C2_Capacity ==
    /\ [](size(Self) <= max_size(Self))
    /\ [][max_size(Self)' = max_size(Self)]_vars

\* the container is full after a release and a reallocation
C2_Witness ==
    /\ ~fatal /\ size(Self) = max_size(Self) /\ max_size(Self) >= 2
    /\ last.op = "emplace" /\ last.ret # max_size(Self) - 1

\* the sequence q with x put at position k
InsertAt(q, k, x) == SubSeq(q, 1, k - 1) \o <<x>> \o SubSeq(q, k, Len(q))

\* the position in the traversal o that cursor pos stands at; end() stands past the last
PlaceOf(o, pos) ==
    IF pos = NODE_NONE THEN Len(o) + 1 ELSE CHOOSE k \in 1 .. Len(o) : o[k] = pos

Boxed(vals) == [k \in 1 .. Len(vals) |-> <<vals[k]>>]
Reverse(q) == [k \in 1 .. Len(q) |-> q[Len(q) + 1 - k]]

\* C8: after N successive emplace_back/push_back calls on a container that was
\* empty, the forward traversal yields the values in insertion order; after N
\* successive emplace_front/push_front calls, in reverse insertion order.
C8_OrderPreservation ==
    ~fatal =>
        /\ run.end = "back" => Payloads(Self) = Boxed(run.vals)
        /\ run.end = "front" => Payloads(Self) = Reverse(Boxed(run.vals))
        /\ run.end # "none" => size(Self) = Len(run.vals)

\* three pushes to the front of a container that had been used and emptied
C8_Witness ==
    /\ ~fatal /\ run.end = "front" /\ Len(run.vals) = 3
    /\ run.vals[1] # run.vals[3]
    /\ Order(Self) # <<2, 1, 0>>

\* an emplace(pos, v) step from a state with size() < max_size() and pos end()
\* or live: no check trips, the new index is the idle front, and the list is
\* the one before with the new element at the place of pos
C9_EmplaceStep ==
    (/\ last'.op = "emplace"
     /\ size(Self) < max_size(Self)
     /\ last'.pos = NODE_NONE \/ last'.pos \in Live) =>
        LET o == Order(Self)
            k == PlaceOf(o, last'.pos)
            n == last'.ret
            v == last'.arg[1]
        IN  /\ ~fatal'
            /\ n \in Idle /\ n = idle_front_
            /\ Order(Self)' = InsertAt(o, k, n)
            /\ Payloads(Self)' = InsertAt(Payloads(Self), k, <<v>>)
            /\ varray_'[n] = <<v>>
            /\ valid_node(Self', n) /\ narray_'[n].cur_ = n
            /\ head_' = (IF k = 1 THEN n ELSE head_)
            /\ tail_' = (IF k = Len(o) + 1 THEN n ELSE tail_)

\* C9: emplace(pos, v) with size() < max_size() and pos end() or a live
\* element x leaves the list as it was with v put immediately before x (last
\* for end(), first when x is the head), every other element where it was in
\* the order, and returns the cursor of the newly allocated index, whose slot
\* holds v.
C9_PositionalEmplace == [][C9_EmplaceStep]_vars

\* an emplace has put a value between two elements
C9_Witness ==
    /\ ~fatal /\ last.op = "emplace"
    /\ next(Self, last.ret) = last.pos /\ last.pos # NODE_NONE
    /\ prev(Self, last.ret) # NODE_NONE

\* C10: an insert at a valid cursor followed at once by the erase of the
\* cursor it returned leaves size(), head, tail and the forward traversal
\* (indices and values) as they were before the insert.
C10_RoundTrip ==
    (last.op = "erase" /\ last.was # <<>>) => ~fatal /\ Seen(Self) = last.was[1]

\* the erase has undone an insert into a list of two or more elements
C10_Witness ==
    /\ ~fatal /\ last.op = "erase" /\ last.was # <<>>
    /\ size(Self) >= 2
    /\ last.pos \in Idle

\* C3 as claimed: after the release of three live indices i1, i2, i3 in that
\* order with no allocation in between, the next three allocations return
\* exactly i1, i2, i3 in that order.
C3_AsClaimed ==
    (~fatal /\ Len(fifo.rel) = 3) =>
        \A k \in 1 .. Len(fifo.got) : k <= 3 => fifo.got[k] = fifo.rel[k]

\* C3, amended: the allocations that follow the releases first hand out the
\* indices that were idle before the release of i1, in the order of the idle
\* queue, and then i1, i2, i3 in that order; they are the next three
\* allocations when no index was idle before.
C3_FifoReuse ==
    ~fatal =>
        LET queue == fifo.idle \o fifo.rel IN
        /\ Len(fifo.got) <= Len(queue)
        /\ \A k \in 1 .. Len(fifo.got) : fifo.got[k] = queue[k]
        /\ (fifo.idle = <<>> /\ Len(fifo.rel) = 3) =>
               \A k \in 1 .. Len(fifo.got) : k <= 3 => fifo.got[k] = fifo.rel[k]

\* three releases beside one idle index, then four allocations
C3_Witness ==
    /\ ~fatal /\ Len(fifo.rel) = 3 /\ Len(fifo.idle) = 1 /\ Len(fifo.got) = 4
    /\ fifo.rel # <<0, 1, 2>>

\* the sequence q with the sequence xs put at position k
InsertAll(q, k, xs) == SubSeq(q, 1, k - 1) \o xs \o SubSeq(q, k, Len(q))

\* a call of insert(pos, begin, end) has returned, pos having been end() or live
RangeInserted ==
    /\ ~fatal /\ last.op = "insert_range"
    /\ last.pos = NODE_NONE \/ last.pos \in Range(last.was[1].order)

\* C4 as claimed: insert(pos, begin, end) leaves the list as it was with
\* e1, ..., ek, in that order, immediately before the element pos pointed to
\* (at the tail for end()), the elements that were present keeping their order.
C4_AsClaimed ==
    RangeInserted =>
        LET w == last.was[1]
            k == PlaceOf(w.order, last.pos)
        IN  /\ Payloads(Self) = InsertAll(w.payloads, k, Boxed(last.arg))
            /\ \E new \in [1 .. Len(last.arg) -> Indices] :
                   Order(Self) = InsertAll(w.order, k, new)

\* C5 as claimed: insert(pos, begin, end) returns the cursor after the last
\* inserted element; for an empty range it returns pos and changes nothing.
C5_AsClaimed ==
    RangeInserted =>
        IF last.arg = <<>>
        THEN last.ret = last.pos /\ Seen(Self) = last.was[1]
        ELSE last.ret = next(Self, last.was[2])

\* C6 as claimed: a backward step, prefix or postfix, of a read-only or a
\* mutable cursor yields a cursor at active_tail from end() and at prev(index)
\* from a live index.
C6_AsClaimed ==
    (/\ ~fatal /\ last.op \in BackwardSteps
     /\ last.pos = NODE_NONE \/ valid_node(Self, last.pos)) =>
        last.ret = IF last.pos = NODE_NONE THEN tail(Self) ELSE prev(Self, last.pos)

\* the cursor k prefix steps of a read-only cursor lead to from c: forward with
\* operator++ and backward with operator--; fatal when a step trips a check
RECURSIVE Steps(_, _, _, _)
Steps(s, c, k, forward) ==
    IF k = 0 THEN Stepped(c, c)
    ELSE LET r == IF forward THEN const_preinc(s, c) ELSE const_predec(s, c) IN
         IF r.fatal THEN r ELSE Steps(s, r.self, k - 1, forward)

\* C7: size() forward steps from begin() reach end() and fewer do not; size()
\* backward steps from end() reach begin() and fewer do not; and the backward
\* traversal visits the live indices in the reverse of the forward order.
C7_CursorSymmetry ==
    ~fatal =>
        LET n == size(Self)
            fwd(k) == Steps(Self, cbegin(Self), k, TRUE)
            bwd(k) == Steps(Self, cend(Self), k, FALSE)
        IN  /\ \A k \in 0 .. n : ~fwd(k).fatal /\ ~bwd(k).fatal
            /\ fwd(n).ret = cend(Self)
            /\ bwd(n).ret = cbegin(Self)
            /\ \A k \in 0 .. n - 1 : fwd(k).ret # cend(Self)
            /\ \A k \in 0 .. n - 1 : bwd(k).ret # cbegin(Self)
            /\ \A k \in 1 .. n : bwd(k).ret = fwd(n - k).ret

\* a backward step from end() has reached the tail of a list of three, out of index order
C7_Witness ==
    /\ ~fatal /\ last.op = "const --it" /\ last.pos = NODE_NONE
    /\ size(Self) = 3 /\ last.ret = tail(Self)
    /\ Order(Self) # <<0, 1, 2>>

\* the links and the value slots of the container a step leaves
After == [narray_ |-> narray_', varray_ |-> varray_']

\* the forward traversal of the container a step leaves: Order(Self)', walked
\* over the links narray_' from head_'
OrderAfter == Walk(After, head_', capacity_' + 1)

\* the index the call last' releases, if it releases one
Released ==
    IF last'.op \in ReleaseOps /\ last'.pos # NODE_NONE THEN {last'.pos} ELSE {}

\* an emplace, erase or pop step and a cursor at an index i that was live and
\* is not the one released: the cursor is valid and dereferences slot i to the
\* value it had, i keeps its self index, and the traversal, of the indices that
\* were live, is the one before without the index released, so that i keeps its
\* surviving neighbours
C11_CursorStep ==
    last'.op \in AllocOps \cup ReleaseOps =>
        LET o == Order(Self)
        IN  /\ SelectSeq(OrderAfter, LAMBDA x : valid(Self, x))
                   = SelectSeq(o, LAMBDA x : x \notin Released)
            /\ \A i \in Range(o) \ Released :
                   /\ valid(After, i)
                   /\ deref(After, i) = [fatal |-> FALSE, slot |-> i, value |-> varray_[i]]
                   /\ varray_[i] # Raw
                   /\ narray_'[i].cur_ = i

\* C11: a cursor at a live index i stays valid, still dereferences slot i with
\* its value unchanged and still sits between the same surviving neighbours in
\* the traversal, across every emplace, erase and pop that does not release i.
C11_CursorStability == [][C11_CursorStep]_vars

\* an erase has left two elements that are not in index order
C11_Witness ==
    /\ ~fatal /\ last.op = "erase" /\ last.pos # NODE_NONE
    /\ size(Self) = 2 /\ head(Self) > tail(Self)
    /\ \A i \in Live : valid(Self, i) /\ deref(Self, i).slot = i

\* how many times the call c was made on slot i during the last call
Calls(events, c, i) ==
    Cardinality({k \in DOMAIN events : events[k] = [call |-> c, at |-> i]})

\* a slot holds a constructed payload exactly when its index is live
C12_ConstructedIffLive ==
    ~fatal => \A i \in Indices : varray_[i] # Raw <=> i \in Live

\* the slots the calls named c of the sequence events were made on, in order
Slots(events, c) ==
    LET made == SelectSeq(events, LAMBDA e : e.call = c)
    IN  [k \in DOMAIN made |-> made[k].at]

\* a call whose preconditions hold constructs once each slot whose index goes
\* from free to live, a slot that held no payload, and no other slot, and
\* destroys once each slot whose index goes from live to free, a slot that held
\* a payload, and no other slot
C12_LifecycleStep ==
    ~fatal' =>
        LET born == Range(OrderAfter) \ Live
            died == Live \ Range(OrderAfter)
            news == Slots(life', "new")
            dels == Slots(life', "delete")
        IN  /\ Range(news) = born /\ Len(news) = Cardinality(born)
            /\ Range(dels) = died /\ Len(dels) = Cardinality(died)
            /\ \A i \in born : varray_[i] = Raw /\ varray_'[i] # Raw
            /\ \A i \in died : varray_[i] # Raw /\ varray_'[i] = Raw

\* C12: the payload of slot i is constructed exactly when i goes from free to
\* live and destroyed exactly when it goes from live to free; between calls a
\* slot holds a constructed payload iff its index is live; and no sequence of
\* calls whose preconditions hold, clear() and the destructor included,
\* constructs a slot twice without a destroy between or destroys it twice
\* without a construct between.
C12_PayloadLifecycle == []C12_ConstructedIffLive /\ [][C12_LifecycleStep]_vars

\* the destructor has destroyed the payloads of three elements, one after another
C12_Witness ==
    /\ ~fatal /\ ~Alive /\ Len(life) = 3
    /\ \A i \in Indices : Calls(life, "delete", i) = 1 /\ varray_[i] = Raw

\* k successive calls of alloc_node: whether one tripped its check, and the
\* indices returned
RECURSIVE Allocs(_, _)
Allocs(s, k) ==
    IF k = 0 THEN [fatal |-> FALSE, got |-> <<>>]
    ELSE LET s1 == alloc_node(s) IN
         IF s1.fatal THEN [fatal |-> TRUE, got |-> <<>>]
         ELSE LET r == Allocs(s1, k - 1)
              IN  [fatal |-> r.fatal, got |-> <<alloc_ret(s)>> \o r.got]

\* a clear() step: it returns with the container empty, the payload of each
\* index that was live destroyed once and no other constructor or destructor
\* call made, and the idle chain from idle_front_ to idle_back_ holding every
\* index, so that max_size() calls of alloc_node pass their check
C13_ClearStep ==
    last'.op = "clear" =>
        /\ ~fatal'
        /\ size(Self') = 0 /\ empty(Self') /\ begin(Self') = end(Self')
        /\ head(Self') = NODE_NONE /\ tail(Self') = NODE_NONE
        /\ Len(life') = Cardinality(Live)
        /\ \A i \in Indices :
               /\ Calls(life', "delete", i) = (IF i \in Live THEN 1 ELSE 0)
               /\ Calls(life', "new", i) = 0
               /\ varray_'[i] = Raw
        /\ LET q == IdleSeq(Self') IN
           /\ Len(q) = capacity_ /\ Range(q) = Indices
           /\ q[1] = idle_front_' /\ q[Len(q)] = idle_back_'
           /\ prev(Self', idle_front_') = NODE_NONE
           /\ next(Self', idle_back_') = NODE_NONE
           /\ \A k \in 1 .. Len(q) - 1 : prev(Self', q[k + 1]) = q[k]
        /\ LET a == Allocs(Self', max_size(Self')) IN
           ~a.fatal /\ a.got = IdleSeq(Self')

\* C13: from any reachable state clear() returns with size() = 0, begin() =
\* end(), head and tail the sentinel, every payload that was live destroyed
\* exactly once, and all capacity indices in one idle chain from idle_front_
\* to idle_back_, so that max_size() further allocations succeed.
C13_Clear == [][C13_ClearStep]_vars

\* clear() has destroyed two payloads and left the idle chain out of index order
C13_Witness ==
    /\ ~fatal /\ last.op = "clear" /\ Len(life) >= 2
    /\ size(Self) = 0 /\ Len(IdleSeq(Self)) = capacity_
    /\ \E k \in 1 .. capacity_ - 1 : IdleSeq(Self)[k] > IdleSeq(Self)[k + 1]

\* the sequence q without its last member
ButLast(q) == SubSeq(q, 1, Len(q) - 1)

\* the cursor at the first member of the traversal o, end() when there is none
FirstOf(o) == IF o = <<>> THEN NODE_NONE ELSE o[1]

\* the cursor at the last member of the traversal o, end() when there is none
LastOf(o) == IF o = <<>> THEN NODE_NONE ELSE o[Len(o)]

\* a pop_front() or pop_back() step on a container that is not empty
C14_PopStep ==
    (last'.op \in {"pop_front", "pop_back"} /\ ~empty(Self)) =>
        LET o == Order(Self)
            rest == IF last'.op = "pop_front" THEN Tail(o) ELSE ButLast(o)
            gone == IF last'.op = "pop_front" THEN o[1] ELSE o[Len(o)]
        IN  /\ ~fatal'
            /\ size(Self') = size(Self) - 1
            /\ Order(Self)' = rest
            /\ Payloads(Self)' = [k \in 1 .. Len(rest) |-> varray_[rest[k]]]
            /\ head(Self') = FirstOf(rest) /\ tail(Self') = LastOf(rest)
            /\ ~valid_node(Self', gone)
            /\ life' = <<[call |-> "delete", at |-> gone]>>

\* C14: on a container that is not empty pop_front() removes exactly the first
\* element of the forward traversal and pop_back() exactly the last; size()
\* goes down by one, the remaining elements keep their order, and head and
\* tail are the new ends, both the sentinel when the last element is removed.
C14_Pop == [][C14_PopStep]_vars

\* pop_back() has left two elements that are not in index order
C14_Witness ==
    /\ ~fatal /\ last.op = "pop_back" /\ size(Self) = 2
    /\ head(Self) > tail(Self) /\ ~valid_node(Self, last.pos)
    /\ next(Self, tail(Self)) = NODE_NONE

\* the step has changed no field of the arena, no link and no value slot, and
\* has made no constructor or destructor call
Untouched ==
    /\ UNCHANGED <<size_, capacity_, head_, tail_, idle_front_, idle_back_,
                   narray_, varray_>>
    /\ life' = <<>>

\* an emplace_front, emplace_back or emplace step on a full container
C15_FullStep ==
    (last'.op \in AllocOps /\ size(Self) = max_size(Self)) =>
        /\ fatal'
        /\ Untouched
        /\ size(Self') = size(Self)
        /\ Order(Self)' = Order(Self) /\ IdleSeq(Self)' = IdleSeq(Self)
        /\ last'.ret \notin Live

\* C15: when size() = max_size(), each of emplace_front, emplace_back and
\* emplace trips the fatal check instead of succeeding: it yields no index
\* that is already live and changes neither size() nor the active list nor
\* the idle queue.
C15_Exhaustion == [][C15_FullStep]_vars

\* emplace_front on a full container of two or more elements has tripped the check
C15_Witness ==
    /\ fatal /\ last.op = "emplace_front" /\ life = <<>>
    /\ size(Self) = max_size(Self) /\ max_size(Self) >= 2
    /\ Len(Order(Self)) = max_size(Self) /\ IdleSeq(Self) = <<>>

\* a container with size() = 0 has begin() = end() and is empty()
C16_EmptyLooksEmpty ==
    size(Self) = 0 => begin(Self) = end(Self) /\ empty(Self)

\* a pop_front(), pop_back(), front() or back() step on a container with size() = 0
C16_EmptyStep ==
    (last'.op \in {"pop_front", "pop_back", "front", "back"} /\ size(Self) = 0) =>
        /\ fatal'
        /\ Untouched
        /\ last'.ret = NODE_NONE /\ last'.arg = <<>>

\* C16: on a container with size() = 0, fresh or emptied, begin() = end() and
\* empty() is true, and each of pop_front(), pop_back(), front() and back()
\* trips a fatal check rather than returning a value or changing any state.
C16_EmptyAccess == []C16_EmptyLooksEmpty /\ [][C16_EmptyStep]_vars

\* back() has tripped its check on a container that had been used and emptied
C16_Witness ==
    /\ fatal /\ last.op = "back" /\ last.arg = <<>>
    /\ size(Self) = 0 /\ begin(Self) = end(Self)
    /\ idle_front_ # 0 /\ Len(IdleSeq(Self)) = capacity_

\* the cursor of the call last' is stale: the call before released its index
StaleCursor ==
    /\ last.op \in ReleaseOps /\ last.pos # NODE_NONE
    /\ last'.pos = last.pos /\ ~valid(Self, last'.pos)

\* an erase(pos) step with pos end() or a stale cursor
C17_NonLiveStep ==
    (last'.op = "erase" /\ (last'.pos = end(Self) \/ StaleCursor)) =>
        /\ fatal'
        /\ Untouched

\* C17 as claimed: erase(cursor) with the end cursor or a stale cursor trips a
\* fatal check, and before the check fires no payload destructor has run and
\* no field of the arena (size, head, tail, idle ends, any link) has changed.
C17_AsClaimed == [][C17_NonLiveStep]_vars

\* the place of x in the sequence q, and 0 when q does not hold x
At(q, x) == IF x \in Range(q) THEN CHOOSE k \in DOMAIN q : q[k] = x ELSE 0

\* x comes out of the queue no later than y does: y is not in q, or x is ahead of it
Ahead(q, x, y) == At(q, y) # 0 => At(q, x) # 0 /\ At(q, x) < At(q, y)

\* an allocation returns the index at the idle front and takes it off the queue;
\* a release appends its index at the idle back; and the index released from a
\* full container is the idle front, which the very next allocation returns
C18_QueueStep ==
    ~fatal' =>
        /\ last'.op \in AllocOps =>
               /\ last'.ret = idle_front_ /\ last'.ret = Head(IdleSeq(Self))
               /\ IdleSeq(Self)' = Tail(IdleSeq(Self))
        /\ last'.op \in ReleaseOps =>
               /\ IdleSeq(Self)' = Append(IdleSeq(Self), last'.pos)
               /\ idle_back_' = last'.pos
        /\ (last'.op \in ReleaseOps /\ size(Self) = max_size(Self)) =>
               /\ idle_front_' = last'.pos
               /\ ~alloc_node(Self').fatal /\ alloc_ret(Self') = last'.pos

\* of the indices released during a run of releases, one released earlier is
\* handed out before one released later, and each index that was idle when
\* the run began is handed out before any of them
C18_HandedOutInOrder ==
    ~fatal =>
        /\ \A a, b \in DOMAIN fifo.rel :
               a < b => Ahead(fifo.got, fifo.rel[a], fifo.rel[b])
        /\ \A x \in Range(fifo.idle), b \in DOMAIN fifo.rel :
               Ahead(fifo.got, x, fifo.rel[b])
        /\ \A k \in DOMAIN fifo.got : At(fifo.got, fifo.got[k]) = k

\* C18: allocation returns the index at the idle front and release appends at
\* the idle back, so of two indices i and j released in that order, neither
\* reallocated in between, i is handed out before j, and every index that was
\* idle when i was released is handed out before i; an index released from a
\* full container becomes the idle front and the very next allocation returns it.
C18_IdleFifo == []C18_HandedOutInOrder /\ [][C18_QueueStep]_vars

\* three releases from a full container, out of index order, and the three
\* allocations that followed
C18_Witness ==
    /\ ~fatal /\ fifo.idle = <<>> /\ Len(fifo.rel) = 3 /\ Len(fifo.got) = 3
    /\ fifo.rel[1] > fifo.rel[2]
    /\ last.op \in AllocOps /\ last.ret = fifo.rel[3]

\* the indices from a up to b - 1, in index order
Upto(a, b) == [k \in 1 .. b - a |-> a + k - 1]

\* the state right after construction
C19_Constructed ==
    last.op = "ctor" =>
        /\ ~fatal /\ capacity_ >= 1
        /\ size(Self) = 0 /\ head(Self) = NODE_NONE /\ tail(Self) = NODE_NONE
        /\ \A i \in Indices : narray_[i].cur_ = NODE_NONE /\ varray_[i] = Raw
        /\ IdleSeq(Self) = Upto(0, capacity_)
        /\ idle_front_ = 0 /\ idle_back_ = capacity_ - 1
        /\ LET a == Allocs(Self, capacity_) IN
           ~a.fatal /\ a.got = Upto(0, capacity_)

\* with nothing released since construction, the allocation that made size()
\* k returned index k - 1, and the idle queue is what is left of 0 .. C - 1
C19_AllocatedInIndexOrder ==
    ~fatal =>
        /\ last.op \in AllocOps => last.ret = size(Self) - 1
        /\ Live = 0 .. size(Self) - 1
        /\ IdleSeq(Self) = Upto(size(Self), capacity_)

\* C19: right after construction with capacity C >= 1, size() = 0, head and
\* tail are the sentinel, every slot's self index is the sentinel, and the idle
\* queue is 0, 1, ..., C - 1 in index order with idle_front_ = 0 and idle_back_
\* = C - 1, so the first C allocations with no release in between return
\* 0, 1, ..., C - 1 in that order.
C19_InitialState == C19_Constructed /\ C19_AllocatedInIndexOrder

\* the third allocation since construction has filled the container, by
\* calls that did not all push to the back
C19_Witness ==
    /\ ~fatal /\ last.op \in AllocOps /\ last.ret = 2
    /\ size(Self) = max_size(Self) /\ Order(Self) # <<0, 1, 2>>

\* the indices a backward traversal from node i visits, at most `fuel` of them
RECURSIVE WalkBack(_, _, _)
WalkBack(s, i, fuel) ==
    IF i = NODE_NONE \/ fuel = 0 THEN <<>>
    ELSE <<i>> \o WalkBack(s, prev(s, i), fuel - 1)

\* C20: while the program runs the active list is non-cyclic (the traversal
\* from head reaches end() within capacity steps without visiting an index
\* twice, and the one from tail backwards is its reverse), prev(head) and
\* next(tail) are the sentinel, head is the sentinel iff tail is iff size() is
\* 0, next and prev mirror one another at every live index, every live slot's
\* self index is its own index and every free slot's is the sentinel.
C20_ActiveList ==
    ~fatal =>
        LET o == Order(Self) IN
        /\ Len(o) <= capacity_ /\ Cardinality(Range(o)) = Len(o)
        /\ WalkBack(Self, tail(Self), capacity_ + 1) = Reverse(o)
        /\ head(Self) # NODE_NONE => prev(Self, head(Self)) = NODE_NONE
        /\ tail(Self) # NODE_NONE => next(Self, tail(Self)) = NODE_NONE
        /\ head(Self) = NODE_NONE <=> tail(Self) = NODE_NONE
        /\ head(Self) = NODE_NONE <=> size(Self) = 0
        /\ \A i \in Indices :
               /\ i \in Live <=> valid_node(Self, i)
               /\ i \in Live => narray_[i].cur_ = i
               /\ i \notin Live => narray_[i].cur_ = NODE_NONE
               /\ (i \in Live /\ next(Self, i) # NODE_NONE) =>
                      prev(Self, next(Self, i)) = i
               /\ (i \in Live /\ prev(Self, i) # NODE_NONE) =>
                      next(Self, prev(Self, i)) = i

\* a list of three whose middle element has the lowest index
C20_Witness ==
    /\ ~fatal /\ size(Self) = 3
    /\ LET m == next(Self, head(Self)) IN
       m < head(Self) /\ m < tail(Self) /\ prev(Self, tail(Self)) = m

\* C21: while the program runs, idle_front_ is the sentinel iff idle_back_ is
\* iff size() is the capacity; otherwise the chain of next links from
\* idle_front_ visits exactly capacity - size() distinct free indices and ends
\* at idle_back_, prev(idle_front_) and next(idle_back_) are the sentinel, and
\* the prev links mirror the next links along the chain.
C21_IdleQueue ==
    ~fatal =>
        LET q == IdleSeq(Self) IN
        /\ idle_front_ = NODE_NONE <=> idle_back_ = NODE_NONE
        /\ idle_front_ = NODE_NONE <=> size(Self) = capacity_
        /\ Len(q) = capacity_ - size(Self)
        /\ Cardinality(Range(q)) = Len(q)
        /\ \A k \in DOMAIN q : q[k] \in Indices /\ ~valid_node(Self, q[k])
        /\ idle_front_ # NODE_NONE =>
               /\ q[1] = idle_front_ /\ q[Len(q)] = idle_back_
               /\ prev(Self, idle_front_) = NODE_NONE
               /\ next(Self, idle_back_) = NODE_NONE
               /\ WalkBack(Self, idle_back_, capacity_ + 1) = Reverse(q)
               /\ \A k \in 1 .. Len(q) - 1 :
                      next(Self, q[k]) = q[k + 1] /\ prev(Self, q[k + 1]) = q[k]

\* an idle chain of two indices in falling order beside a live element
C21_Witness ==
    /\ ~fatal /\ size(Self) = 1 /\ idle_front_ # NODE_NONE
    /\ next(Self, idle_front_) = idle_back_ /\ idle_front_ > idle_back_
    /\ prev(Self, idle_back_) = idle_front_

\* the documented preconditions of the call last' hold in the state it is made
\* in: an allocation with size() < max_size(), emplace at end() or a live
\* cursor, erase of a live cursor, pop, front and back on a container that is
\* not empty, a forward step of a live cursor, a backward step from end() on a
\* container that is not empty or from a live cursor that is not at the head
ValidUse ==
    /\ last'.op \in AllocOps => size(Self) < max_size(Self)
    /\ last'.op = "emplace" => last'.pos = end(Self) \/ valid(Self, last'.pos)
    /\ last'.op = "erase" => valid(Self, last'.pos)
    /\ last'.op \in {"pop_front", "pop_back", "front", "back"} => ~empty(Self)
    /\ last'.op \in ForwardSteps => valid(Self, last'.pos)
    /\ last'.op \in BackwardSteps =>
           \/ last'.pos = end(Self) /\ ~empty(Self)
           \/ valid(Self, last'.pos) /\ last'.pos # begin(Self)

\* a call whose documented preconditions hold trips no uassert
C22_ValidStep == ValidUse => ~fatal'

\* C22 as claimed: in no sequence of public operations whose documented
\* preconditions hold does an internal check fail.
C22_AsClaimed == [][C22_ValidStep]_vars

====
